---- MODULE Spec2Model ----
(***************************************************************************)
(* A model of the quiz session engine of Zyzzyva (QuizEngine.cpp).         *)
(*                                                                         *)
(* A word (QString) is a sequence of one-character strings; the null       *)
(* QString is the empty sequence.  The WordEngine behind the engine is not *)
(* part of the sources at hand: its four queries are modelled from their   *)
(* documented contract over a small fixed lexicon.                         *)
(***************************************************************************)
EXTENDS Integers, Sequences, FiniteSets, TLC

\* ------------------------------------------------------------------ bounds
\* respond is not offered once quizIncorrect, or the length of
\* incorrectUserResponses, has reached this value
MaxIncorrect == 2
\* nextQuestion is not offered beyond this index once the index is outside the
\* question list
MaxIndex == 2
\* addIncorrect and addMissed are not offered beyond this many counted responses
MaxCount == 2
\* the nodes below the top element of a document handed to fromDomElement
MaxNodes == 3
\* getSquareType is called with coordinates up to this far off the board
MaxOutside == 2

\* ------------------------------------------------------------------- words
ACT == <<"a", "c", "t">>
AT  == <<"a", "t">>
CAB == <<"c", "a", "b">>
CAT == <<"c", "a", "t">>
TA  == <<"t", "a">>
\* not a word of the lexicon
TCA == <<"t", "c", "a">>
\* pattern texts
STAR == <<"*">>

NullString == <<>>

Range(s) == {s[i] : i \in DOMAIN s}

\* code points, the order QString's operator< compares by
CharCode(c) ==
    CASE c = "*" -> 42
      [] c = "?" -> 63
      [] c = "a" -> 97
      [] c = "b" -> 98
      [] c = "c" -> 99
      [] c = "t" -> 116

RECURSIVE WordLess(_, _)
WordLess(v, w) ==
    IF w = <<>> THEN FALSE
    ELSE IF v = <<>> THEN TRUE
    ELSE IF Head(v) # Head(w) THEN CharCode(Head(v)) < CharCode(Head(w))
    ELSE WordLess(Tail(v), Tail(w))

\* the elements of a std::set<QString> in iteration order
RECURSIVE SortedSeq(_)
SortedSeq(S) ==
    IF S = {} THEN <<>>
    ELSE LET m == CHOOSE x \in S : \A y \in S : x = y \/ WordLess(x, y)
         IN  <<m>> \o SortedSeq(S \ {m})

\* ------------------------------------------------- the Lexicon (WordEngine)
LexiconWords == <<ACT, AT, CAB, CAT, TA>>

Count(c, w) == Cardinality({i \in DOMAIN w : w[i] = c})

Letters(w) == Range(w)

RECURSIVE PatternMatches(_, _)
PatternMatches(p, w) ==
    IF p = <<>> THEN w = <<>>
    ELSE IF Head(p) = "*"
         THEN PatternMatches(Tail(p), w)
              \/ (w # <<>> /\ PatternMatches(p, Tail(w)))
    ELSE /\ w # <<>>
         /\ (Head(p) = "?" \/ Head(p) = Head(w))
         /\ PatternMatches(Tail(p), Tail(w))

\* the texts the engine can put to the lexicon: the query texts of newQuiz,
\* the alphagrams it turns into questions, and the null string
LexiconTexts ==
    {<<"*">>, <<"a", "c", "t">>, <<"a", "t">>, <<"a", "b", "c">>, <<>>}
        \cup Range(LexiconWords)

PatternIndex ==
    [text \in LexiconTexts |->
        SelectSeq(LexiconWords, LAMBDA w : PatternMatches(text, w))]

AnagramIndex ==
    [text \in LexiconTexts |->
        SelectSeq(LexiconWords,
                  LAMBDA w : /\ Len(w) = Len(text)
                             /\ \A c \in Letters(w) \cup Letters(text) :
                                    Count(c, w) = Count(c, text))]

SubanagramIndex ==
    [text \in LexiconTexts |->
        SelectSeq(LexiconWords,
                  LAMBDA w : \A c \in Letters(w) :
                                 Count(c, w) <= Count(c, text))]

matchPattern(input) == PatternIndex[input]

matchAnagram(input) == AnagramIndex[input]

matchSubanagram(input) == SubanagramIndex[input]

\* the letters of a word in sorted order
Alphagram(w) == SortSeq(w, LAMBDA a, b : CharCode(a) < CharCode(b))

\* one alphagram per letter multiset, in the order of first occurrence
RECURSIVE alphagrams(_)
alphagrams(words) ==
    IF words = <<>> THEN <<>>
    ELSE LET front == alphagrams(SubSeq(words, 1, Len(words) - 1))
             a     == Alphagram(words[Len(words)])
         IN  IF a \in Range(front) THEN front ELSE Append(front, a)

MatchTypes == {"Pattern", "Anagram", "Subanagram"}

\* the switch over the match type, default: no result
Match(type, text) ==
    CASE type = "Pattern"    -> matchPattern(text)
      [] type = "Anagram"    -> matchAnagram(text)
      [] type = "Subanagram" -> matchSubanagram(text)
      [] OTHER               -> <<>>

\* ------------------------------------------------------------------ inputs
QueryTexts == {ACT, STAR}
Responses  == {ACT, AT, CAT, TA, TCA}
\* values an int member may hold before anything was assigned to it
Indeterminate == {-1, 1}

\* ------------------------------------------------------------------- state
VARIABLES
    quizQuestions,           \* QStringList: the questions, zero-based in the code
    quizType,                \* the match type used to resolve answers
    questionIndex,
    quizTotal, quizCorrect, quizIncorrect,
    correctResponses,        \* std::set<QString>
    correctUserResponses,    \* std::set<QString>
    incorrectUserResponses,  \* QStringList
    inSession,               \* newQuiz has been called
    request,                 \* the arguments of the last newQuiz
    responded,               \* the responses made to the current question
    op, arg, ret,            \* the last call, its argument and what it returned
    replaced,                \* the last call was a newQuiz over a session in progress
    fault,                   \* the lexicon call that failed during the last call
    progress,                \* a QuizProgress object
    document,                \* the DOM element last produced or handed in
    saved,                   \* the object as it was when document was produced
    pop, parg, pret,         \* the last QuizProgress call, its word and what it returned
    coordinates,             \* the row and column of the last getSquareType call
    squareType,              \* what that call returned
    indexed                  \* the row and column at which it read squareTypes

engine == <<quizQuestions, quizType, questionIndex, quizTotal, quizCorrect,
            quizIncorrect, correctResponses, correctUserResponses,
            incorrectUserResponses>>

session == <<engine, inSession, request, responded, op, arg, ret, replaced,
             fault>>

quizProgress == <<progress, document, saved, pop, parg, pret>>

gameBoard == <<coordinates, squareType, indexed>>

vars == <<session, quizProgress, gameBoard>>

NoRequest == [input |-> NullString, type |-> "Pattern",
              alphagrams |-> FALSE, randomOrder |-> FALSE]

\* the constructor seeds the random generator and assigns no member: the
\* containers are empty, the ints and the match type hold indeterminate values
EngineInit ==
    /\ quizQuestions = <<>>
    /\ quizType \in MatchTypes
    /\ questionIndex \in Indeterminate
    /\ quizTotal \in Indeterminate
    /\ quizCorrect \in Indeterminate
    /\ quizIncorrect \in Indeterminate
    /\ correctResponses = {}
    /\ correctUserResponses = {}
    /\ incorrectUserResponses = <<>>
    /\ inSession = FALSE
    /\ request = NoRequest
    /\ responded = {}
    /\ op = "construct"
    /\ arg = NullString
    /\ ret = "void"
    /\ replaced = FALSE
    /\ fault = "none"

\* --------------------------------------------------------------- operations
\* what quizQuestions.at (index) followed by the test against end() can give:
\* the element inside the list; the null string at the end; past the end (or
\* below zero) the list walk is outside its contract and stops on any node
getQuestionAt(questions, index) ==
    IF 0 <= index /\ index < Len(questions) THEN {questions[index + 1]}
    ELSE IF index = Len(questions) THEN {NullString}
    ELSE {NullString} \cup Range(questions)

getQuestion == getQuestionAt(quizQuestions, questionIndex)

getMissed ==
    SelectSeq(SortedSeq(correctResponses),
              LAMBDA w : w \notin correctUserResponses)

\* onLastQuestion comparing against size() instead of size() - 1
onLastQuestionAt_OffByOne(questions, index) == index = Len(questions)

\* size() - 1 of an empty list is the largest unsigned value, which equals the
\* converted index only for index -1: the same as the comparison over the
\* integers for every index the model reaches
onLastQuestionAt(questions, index) == index = Len(questions) - 1

onLastQuestion == onLastQuestionAt(quizQuestions, questionIndex)

\* prepareQuestion assigning the total (=) instead of adding to it (+=)
prepareQuestion_AssignsTotal(questions, index, type, total) ==
    \E question \in getQuestionAt(questions, index) :
        LET answers == Match(type, question)
        IN  /\ correctResponses' = Range(answers)
            /\ correctUserResponses' = {}
            /\ incorrectUserResponses' = <<>>
            /\ quizTotal' = Cardinality(Range(answers))
            /\ responded' = {}

\* prepareQuestion without the call of clearQuestion
prepareQuestion_NoClear(questions, index, type, total) ==
    \E question \in getQuestionAt(questions, index) :
        LET answers == Match(type, question)
        IN  /\ correctResponses' = correctResponses \cup Range(answers)
            /\ UNCHANGED <<correctUserResponses, incorrectUserResponses,
                           responded>>
            /\ quizTotal' = total + Cardinality(correctResponses')

\* clearQuestion, the query for the current question, and the new total
prepareQuestion(questions, index, type, total) ==
    \E question \in getQuestionAt(questions, index) :
        LET answers == Match(type, question)
        IN  /\ correctResponses' = Range(answers)
            /\ correctUserResponses' = {}
            /\ incorrectUserResponses' = <<>>
            /\ quizTotal' = total + Cardinality(Range(answers))
            /\ responded' = {}

\* the swap loop without tmp: position rnum takes the question of position i
\* and position i keeps its own
RECURSIVE shuffleFrom_NoSwapBack(_, _, _)
shuffleFrom_NoSwapBack(questions, i, draws) ==
    IF i >= Len(questions) THEN questions
    ELSE LET rnum == draws[i + 1]
         IN  IF rnum = i THEN shuffleFrom_NoSwapBack(questions, i + 1, draws)
             ELSE shuffleFrom_NoSwapBack(
                      [questions EXCEPT ![rnum + 1] = questions[i + 1]],
                      i + 1, draws)

\* the swap loop of newQuiz from position i on; draws[i + 1] is rand() % num
RECURSIVE shuffleFrom(_, _, _)
shuffleFrom(questions, i, draws) ==
    IF i >= Len(questions) THEN questions
    ELSE LET rnum == draws[i + 1]
         IN  IF rnum = i THEN shuffleFrom(questions, i + 1, draws)
             ELSE shuffleFrom([questions EXCEPT ![rnum + 1] = questions[i + 1],
                                                ![i + 1] = questions[rnum + 1]],
                              i + 1, draws)

\* newQuiz without quizQuestions.clear(): the input is appended to the old list
selectQuestions_NoClear(input, type, useAlphagrams) ==
    IF useAlphagrams THEN alphagrams(Match(type, input))
    ELSE Append(quizQuestions, input)

\* the question list before the shuffle
selectQuestions(input, type, useAlphagrams) ==
    IF useAlphagrams THEN alphagrams(Match(type, input)) ELSE <<input>>

\* newQuiz without the assignment quizType = Anagram in the Pattern case
effectiveType_Requested(type, useAlphagrams) == type

\* the match type newQuiz leaves in quizType
effectiveType(type, useAlphagrams) ==
    IF useAlphagrams /\ type = "Pattern" THEN "Anagram" ELSE type

newQuiz(input, type, useAlphagrams, randomOrder) ==
    LET selected == selectQuestions(input, type, useAlphagrams)
        num      == Len(selected)
    IN  \E draws \in IF randomOrder THEN [1..num -> 0..(num - 1)] ELSE {<<>>} :
            LET questions == IF randomOrder THEN shuffleFrom(selected, 0, draws)
                             ELSE selected
            IN  /\ quizQuestions' = questions
                /\ quizType' = effectiveType(type, useAlphagrams)
                /\ questionIndex' = 0
                /\ quizCorrect' = 0
                /\ quizIncorrect' = 0
                /\ prepareQuestion(questions, 0,
                                   effectiveType(type, useAlphagrams), 0)
                /\ inSession' = TRUE
                /\ request' = [input |-> input, type |-> type,
                               alphagrams |-> useAlphagrams,
                               randomOrder |-> randomOrder]
                /\ op' = "newQuiz"
                /\ arg' = NullString
                /\ ret' = "void"

\* the advancing path ends without a return statement: the caller reads an
\* indeterminate bool
nextQuestion ==
    /\ questionIndex < Len(quizQuestions) \/ questionIndex < MaxIndex
    /\ op' = "nextQuestion"
    /\ arg' = NullString
    /\ IF onLastQuestion
       THEN /\ ret' = "false"
            /\ UNCHANGED <<engine, inSession, request, responded>>
       ELSE /\ questionIndex' = questionIndex + 1
            /\ prepareQuestion(quizQuestions, questionIndex + 1, quizType,
                               quizTotal)
            /\ ret' \in {"true", "false"}
            /\ UNCHANGED <<quizQuestions, quizType, quizCorrect, quizIncorrect,
                           inSession, request>>

\* respond without the test against correctResponses
respond_NoAnswerCheck(response) ==
    /\ quizIncorrect < MaxIncorrect
    /\ Len(incorrectUserResponses) < MaxIncorrect
    /\ op' = "respond"
    /\ arg' = response
    /\ responded' = responded \cup {response}
    /\ UNCHANGED <<quizQuestions, quizType, questionIndex, quizTotal,
                   correctResponses, inSession, request>>
    /\ IF response \in correctUserResponses
       THEN /\ ret' = "Duplicate"
            /\ UNCHANGED <<correctUserResponses, incorrectUserResponses,
                           quizCorrect, quizIncorrect>>
       ELSE /\ correctUserResponses' = correctUserResponses \cup {response}
            /\ quizCorrect' = quizCorrect + 1
            /\ ret' = "Correct"
            /\ UNCHANGED <<incorrectUserResponses, quizIncorrect>>

\* respond without the test against correctUserResponses
respond_NoDuplicateCheck(response) ==
    /\ quizIncorrect < MaxIncorrect
    /\ Len(incorrectUserResponses) < MaxIncorrect
    /\ op' = "respond"
    /\ arg' = response
    /\ responded' = responded \cup {response}
    /\ UNCHANGED <<quizQuestions, quizType, questionIndex, quizTotal,
                   correctResponses, inSession, request>>
    /\ IF response \notin correctResponses
       THEN /\ incorrectUserResponses' = Append(incorrectUserResponses, response)
            /\ quizIncorrect' = quizIncorrect + 1
            /\ ret' = "Incorrect"
            /\ UNCHANGED <<correctUserResponses, quizCorrect>>
       ELSE /\ correctUserResponses' = correctUserResponses \cup {response}
            /\ quizCorrect' = quizCorrect + 1
            /\ ret' = "Correct"
            /\ UNCHANGED <<incorrectUserResponses, quizIncorrect>>

\* respond logging an incorrect response only the first time it is made
respond_IncorrectOnce(response) ==
    /\ quizIncorrect < MaxIncorrect
    /\ Len(incorrectUserResponses) < MaxIncorrect
    /\ op' = "respond"
    /\ arg' = response
    /\ responded' = responded \cup {response}
    /\ UNCHANGED <<quizQuestions, quizType, questionIndex, quizTotal,
                   correctResponses, inSession, request>>
    /\ IF response \notin correctResponses
       THEN /\ ret' = "Incorrect"
            /\ UNCHANGED <<correctUserResponses, quizCorrect>>
            /\ IF response \in Range(incorrectUserResponses)
               THEN UNCHANGED <<incorrectUserResponses, quizIncorrect>>
               ELSE /\ incorrectUserResponses' =
                           Append(incorrectUserResponses, response)
                    /\ quizIncorrect' = quizIncorrect + 1
       ELSE IF response \in correctUserResponses
       THEN /\ ret' = "Duplicate"
            /\ UNCHANGED <<correctUserResponses, incorrectUserResponses,
                           quizCorrect, quizIncorrect>>
       ELSE /\ correctUserResponses' = correctUserResponses \cup {response}
            /\ quizCorrect' = quizCorrect + 1
            /\ ret' = "Correct"
            /\ UNCHANGED <<incorrectUserResponses, quizIncorrect>>

\* respond counting a correct response on the incorrect counter
respond_WrongCounter(response) ==
    /\ quizIncorrect < MaxIncorrect
    /\ Len(incorrectUserResponses) < MaxIncorrect
    /\ op' = "respond"
    /\ arg' = response
    /\ responded' = responded \cup {response}
    /\ UNCHANGED <<quizQuestions, quizType, questionIndex, quizTotal,
                   correctResponses, inSession, request>>
    /\ IF response \notin correctResponses
       THEN /\ incorrectUserResponses' = Append(incorrectUserResponses, response)
            /\ quizIncorrect' = quizIncorrect + 1
            /\ ret' = "Incorrect"
            /\ UNCHANGED <<correctUserResponses, quizCorrect>>
       ELSE IF response \in correctUserResponses
       THEN /\ ret' = "Duplicate"
            /\ UNCHANGED <<correctUserResponses, incorrectUserResponses,
                           quizCorrect, quizIncorrect>>
       ELSE /\ correctUserResponses' = correctUserResponses \cup {response}
            /\ quizIncorrect' = quizIncorrect + 1
            /\ ret' = "Correct"
            /\ UNCHANGED <<incorrectUserResponses, quizCorrect>>

\* respond counting an incorrect response into quizTotal as well
respond_CountsPossible(response) ==
    /\ quizIncorrect < MaxIncorrect
    /\ Len(incorrectUserResponses) < MaxIncorrect
    /\ op' = "respond"
    /\ arg' = response
    /\ responded' = responded \cup {response}
    /\ UNCHANGED <<quizQuestions, quizType, questionIndex,
                   correctResponses, inSession, request>>
    /\ IF response \notin correctResponses
       THEN /\ incorrectUserResponses' = Append(incorrectUserResponses, response)
            /\ quizIncorrect' = quizIncorrect + 1
            /\ quizTotal' = quizTotal + 1
            /\ ret' = "Incorrect"
            /\ UNCHANGED <<correctUserResponses, quizCorrect>>
       ELSE IF response \in correctUserResponses
       THEN /\ ret' = "Duplicate"
            /\ UNCHANGED <<correctUserResponses, incorrectUserResponses,
                           quizCorrect, quizIncorrect, quizTotal>>
       ELSE /\ correctUserResponses' = correctUserResponses \cup {response}
            /\ quizCorrect' = quizCorrect + 1
            /\ ret' = "Correct"
            /\ UNCHANGED <<incorrectUserResponses, quizIncorrect, quizTotal>>

respond(response) ==
    /\ quizIncorrect < MaxIncorrect
    /\ Len(incorrectUserResponses) < MaxIncorrect
    /\ op' = "respond"
    /\ arg' = response
    /\ responded' = responded \cup {response}
    /\ UNCHANGED <<quizQuestions, quizType, questionIndex, quizTotal,
                   correctResponses, inSession, request>>
    /\ IF response \notin correctResponses
       THEN /\ incorrectUserResponses' = Append(incorrectUserResponses, response)
            /\ quizIncorrect' = quizIncorrect + 1
            /\ ret' = "Incorrect"
            /\ UNCHANGED <<correctUserResponses, quizCorrect>>
       ELSE IF response \in correctUserResponses
       THEN /\ ret' = "Duplicate"
            /\ UNCHANGED <<correctUserResponses, incorrectUserResponses,
                           quizCorrect, quizIncorrect>>
       ELSE /\ correctUserResponses' = correctUserResponses \cup {response}
            /\ quizCorrect' = quizCorrect + 1
            /\ ret' = "Correct"
            /\ UNCHANGED <<incorrectUserResponses, quizIncorrect>>

\* ------------------------------------------------------------ QuizProgress
XML_TOP_ELEMENT == "progress"
XML_QUESTION_ATTR == "question"
XML_CORRECT_ATTR == "correct"
XML_INCORRECT_RESPONSES_ELEMENT == "incorrect-responses"
XML_MISSED_RESPONSES_ELEMENT == "missed-responses"
XML_RESPONSE_ELEMENT == "response"
XML_RESPONSE_WORD_ATTR == "word"
XML_RESPONSE_COUNT_ATTR == "count"

DigitChars == <<"0", "1", "2", "3", "4", "5", "6", "7", "8", "9">>

IsDigit(c) == \E d \in DOMAIN DigitChars : DigitChars[d] = c

DigitValue(c) == (CHOOSE d \in DOMAIN DigitChars : DigitChars[d] = c) - 1

RECURSIVE DigitsValue(_)
DigitsValue(s) ==
    IF s = <<>> THEN 0
    ELSE DigitsValue(SubSeq(s, 1, Len(s) - 1)) * 10 + DigitValue(s[Len(s)])

\* QString::toInt (&ok): an optional sign and at least one decimal digit;
\* the value is 0 when the text is no integer
toInt(s) ==
    LET signed == s # <<>> /\ Head(s) \in {"-", "+"}
        digits == IF signed THEN Tail(s) ELSE s
        ok     == digits # <<>> /\ \A i \in DOMAIN digits : IsDigit(digits[i])
        value  == IF ~ok THEN 0
                  ELSE IF signed /\ Head(s) = "-" THEN 0 - DigitsValue(digits)
                  ELSE DigitsValue(digits)
    IN  [ok |-> ok, value |-> value]

RECURSIVE NaturalDigits(_)
NaturalDigits(n) ==
    IF n < 10 THEN <<DigitChars[n + 1]>>
    ELSE Append(NaturalDigits(n \div 10), DigitChars[(n % 10) + 1])

\* the text setAttribute (name, int) stores: the number in decimal
number(n) == IF n < 0 THEN <<"-">> \o NaturalDigits(0 - n) ELSE NaturalDigits(n)

\* DOM nodes: elements, and nodes that are no elements (comments)
Element(tag, attrs, children) ==
    [kind |-> "element", tag |-> tag, attrs |-> attrs, children |-> children]

CommentNode ==
    [kind |-> "comment", tag |-> "", attrs |-> <<>>, children |-> <<>>]

NullElement ==
    [kind |-> "null", tag |-> "", attrs |-> <<>>, children |-> <<>>]

NoAttributes == <<>>

\* QDomNode::toElement: the null element for a node that is no element
toElement(node) == IF node.kind = "element" THEN node ELSE NullElement

isNull(node) == node.kind = "null"

hasAttribute(elem, name) == name \in DOMAIN elem.attrs

attribute(elem, name) ==
    IF hasAttribute(elem, name) THEN elem.attrs[name] ELSE NullString

\* the i-th child of a node as an element: firstChild().toElement() for i = 1,
\* nextSibling().toElement() after that; null behind the last child
childElement(elem, i) ==
    IF i \in DOMAIN elem.children THEN toElement(elem.children[i])
    ELSE NullElement

\* QMap<QString, int>
EmptyMap == <<>>

contains(map, word) == word \in DOMAIN map

insert(map, word, count) ==
    [w \in DOMAIN map \cup {word} |-> IF w = word THEN count ELSE map[w]]

RECURSIVE SumOver(_, _)
SumOver(map, words) ==
    IF words = {} THEN 0
    ELSE LET w == CHOOSE x \in words : TRUE
         IN  map[w] + SumOver(map, words \ {w})

SumValues(map) == SumOver(map, DOMAIN map)

\* the constructor: question (0), correct (0), incorrect (0), missed (0)
FreshProgress ==
    [question |-> 0, correct |-> 0, incorrect |-> 0, missed |-> 0,
     incorrectWords |-> EmptyMap, missedWords |-> EmptyMap]

setQuestion(this, q) == [this EXCEPT !.question = q]

setCorrect(this, c) == [this EXCEPT !.correct = c]

\* addIncorrect assigning 1 where it has to increment
addIncorrect_Overwrite(this, word) ==
    [this EXCEPT
        !.incorrectWords = insert(this.incorrectWords, word, 1),
        !.incorrect = this.incorrect + 1]

addIncorrect(this, word) ==
    [this EXCEPT
        !.incorrectWords =
            IF contains(this.incorrectWords, word)
            THEN insert(this.incorrectWords, word, this.incorrectWords[word] + 1)
            ELSE insert(this.incorrectWords, word, 1),
        !.incorrect = this.incorrect + 1]

\* the overload addIncorrect (word, count)
addIncorrectCount(this, word, count) ==
    [this EXCEPT
        !.incorrectWords = insert(this.incorrectWords, word, count),
        !.incorrect = this.incorrect + count]

addMissed(this, word) ==
    [this EXCEPT
        !.missedWords =
            IF contains(this.missedWords, word)
            THEN insert(this.missedWords, word, this.missedWords[word] + 1)
            ELSE insert(this.missedWords, word, 1),
        !.missed = this.missed + 1]

\* the overload addMissed (word, count)
addMissedCount(this, word, count) ==
    [this EXCEPT
        !.missedWords = insert(this.missedWords, word, count),
        !.missed = this.missed + count]

\* one response element per entry of the map, in key order
responseElements(map) ==
    LET keys == SortedSeq(DOMAIN map)
    IN  [i \in DOMAIN keys |->
            Element(XML_RESPONSE_ELEMENT,
                    (XML_RESPONSE_WORD_ATTR :> keys[i])
                        @@ (XML_RESPONSE_COUNT_ATTR :> number(map[keys[i]])),
                    <<>>)]

asDomElement(this) ==
    Element(XML_TOP_ELEMENT,
            (XML_QUESTION_ATTR :> number(this.question))
                @@ (XML_CORRECT_ATTR :> number(this.correct)),
            (IF DOMAIN this.incorrectWords # {}
             THEN <<Element(XML_INCORRECT_RESPONSES_ELEMENT, NoAttributes,
                            responseElements(this.incorrectWords))>>
             ELSE <<>>)
            \o
            (IF DOMAIN this.missedWords # {}
             THEN <<Element(XML_MISSED_RESPONSES_ELEMENT, NoAttributes,
                            responseElements(this.missedWords))>>
             ELSE <<>>))

\* the inner loop of fromDomElement from the i-th child of elem on;
\* ok is FALSE where the code returns false, tmp is tmpProgress at that point
RECURSIVE parseResponses(_, _, _, _)
parseResponses(tmp, elem, i, elemMissed) ==
    LET responseElem == childElement(elem, i)
        count        == toInt(attribute(responseElem, XML_RESPONSE_COUNT_ATTR))
        word         == attribute(responseElem, XML_RESPONSE_WORD_ATTR)
    IN  IF isNull(responseElem) THEN [ok |-> TRUE, tmp |-> tmp]
        ELSE IF \/ ~hasAttribute(responseElem, XML_RESPONSE_WORD_ATTR)
                \/ ~hasAttribute(responseElem, XML_RESPONSE_COUNT_ATTR)
        THEN [ok |-> FALSE, tmp |-> tmp]
        ELSE IF ~count.ok THEN [ok |-> FALSE, tmp |-> tmp]
        ELSE parseResponses(IF elemMissed
                            THEN addMissedCount(tmp, word, count.value)
                            ELSE addIncorrectCount(tmp, word, count.value),
                            elem, i + 1, elemMissed)

\* the outer loop of fromDomElement from the i-th child of element on
RECURSIVE parseChildren(_, _, _)
parseChildren(tmp, element, i) ==
    LET elem == childElement(element, i)
    IN  IF isNull(elem) THEN [ok |-> TRUE, tmp |-> tmp]
        ELSE IF /\ elem.tag # XML_MISSED_RESPONSES_ELEMENT
                /\ elem.tag # XML_INCORRECT_RESPONSES_ELEMENT
        THEN [ok |-> FALSE, tmp |-> tmp]
        ELSE LET inner == parseResponses(tmp, elem, 1,
                              elem.tag = XML_MISSED_RESPONSES_ELEMENT)
             IN  IF ~inner.ok THEN inner
                 ELSE parseChildren(inner.tmp, element, i + 1)

\* fromDomElement behind the test of the top tag, filling tmp
parseProgress(tmp, element) ==
    LET q == toInt(attribute(element, XML_QUESTION_ATTR))
        c == toInt(attribute(element, XML_CORRECT_ATTR))
    IN  IF hasAttribute(element, XML_QUESTION_ATTR) /\ ~q.ok
        THEN [ok |-> FALSE, tmp |-> tmp]
        ELSE LET tmp1 == IF hasAttribute(element, XML_QUESTION_ATTR)
                         THEN setQuestion(tmp, q.value) ELSE tmp
             IN  IF hasAttribute(element, XML_CORRECT_ATTR) /\ ~c.ok
                 THEN [ok |-> FALSE, tmp |-> tmp1]
                 ELSE parseChildren(IF hasAttribute(element, XML_CORRECT_ATTR)
                                    THEN setCorrect(tmp1, c.value) ELSE tmp1,
                                    element, 1)

\* fromDomElement working on the object itself instead of tmpProgress
fromDomElement_InPlace(this, element) ==
    IF element.tag # XML_TOP_ELEMENT THEN [ret |-> FALSE, obj |-> this]
    ELSE LET parsed == parseProgress(this, element)
         IN  [ret |-> parsed.ok, obj |-> parsed.tmp]

\* what fromDomElement returns, and the object afterwards
fromDomElement(this, element) ==
    IF element.tag # XML_TOP_ELEMENT THEN [ret |-> FALSE, obj |-> this]
    ELSE LET parsed == parseProgress(FreshProgress, element)
         IN  IF parsed.ok THEN [ret |-> TRUE, obj |-> parsed.tmp]
             ELSE [ret |-> FALSE, obj |-> this]

\* ---------------------------------------------------------------- lexicon faults
\* A lexicon query that fails inside newQuiz. The queries return a QStringList
\* and nothing else, so the failure reaches the engine either as an empty list
\* or as an exception that leaves newQuiz where the query was called.
FaultStages == {"questions", "alphagrams", "answers"}
FaultOutcomes == {"empty", "throws"}

newQuizFault(input, type, useAlphagrams, randomOrder, stage, outcome) ==
    LET matched  == IF stage = "questions" THEN <<>> ELSE Match(type, input)
        selected == IF ~useAlphagrams THEN <<input>>
                    ELSE IF stage = "alphagrams" THEN <<>>
                    ELSE alphagrams(matched)
        num      == Len(selected)
        newType  == effectiveType(type, useAlphagrams)
    IN  /\ stage \in {"questions", "alphagrams"} => useAlphagrams
        /\ op' = "newQuiz"
        /\ arg' = NullString
        /\ IF outcome = "throws" /\ stage = "questions"
           THEN /\ quizQuestions' = <<>>
                /\ quizType' = type
                /\ ret' = "exception"
                /\ UNCHANGED <<questionIndex, quizTotal, quizCorrect,
                               quizIncorrect, correctResponses,
                               correctUserResponses, incorrectUserResponses,
                               inSession, request, responded>>
           ELSE IF outcome = "throws" /\ stage = "alphagrams"
           THEN /\ quizQuestions' = matched
                /\ quizType' = newType
                /\ ret' = "exception"
                /\ UNCHANGED <<questionIndex, quizTotal, quizCorrect,
                               quizIncorrect, correctResponses,
                               correctUserResponses, incorrectUserResponses,
                               inSession, request, responded>>
           ELSE \E draws \in IF randomOrder THEN [1..num -> 0..(num - 1)]
                             ELSE {<<>>} :
                    LET questions == IF randomOrder
                                     THEN shuffleFrom(selected, 0, draws)
                                     ELSE selected
                    IN  /\ quizQuestions' = questions
                        /\ quizType' = newType
                        /\ questionIndex' = 0
                        /\ quizCorrect' = 0
                        /\ quizIncorrect' = 0
                        /\ IF stage = "answers"
                           THEN /\ correctResponses' = {}
                                /\ correctUserResponses' = {}
                                /\ incorrectUserResponses' = <<>>
                                /\ quizTotal' = 0
                                /\ responded' = {}
                           ELSE prepareQuestion(questions, 0, newType, 0)
                        /\ IF outcome = "throws"
                           THEN /\ ret' = "exception"
                                /\ UNCHANGED <<inSession, request>>
                           ELSE /\ ret' = "void"
                                /\ inSession' = TRUE
                                /\ request' = [input |-> input, type |-> type,
                                               alphagrams |-> useAlphagrams,
                                               randomOrder |-> randomOrder]

\* ------------------------------------------------------ CrosswordGameBoard
NUM_ROWS == 15
NUM_COLUMNS == 15

SquareTypes ==
    {"Invalid", "NoBonus", "DoubleLetter", "TripleLetter", "DoubleWord",
     "TripleWord"}

col1 == <<"TripleWord", "NoBonus", "NoBonus", "DoubleLetter", "NoBonus",
          "NoBonus", "NoBonus", "TripleWord", "NoBonus", "NoBonus",
          "NoBonus", "DoubleLetter", "NoBonus", "NoBonus", "TripleWord">>

col2 == <<"NoBonus", "DoubleWord", "NoBonus", "NoBonus", "NoBonus",
          "TripleLetter", "NoBonus", "NoBonus", "NoBonus", "TripleLetter",
          "NoBonus", "NoBonus", "NoBonus", "DoubleWord", "NoBonus">>

col3 == <<"NoBonus", "NoBonus", "DoubleWord", "NoBonus", "NoBonus",
          "NoBonus", "DoubleLetter", "NoBonus", "DoubleLetter", "NoBonus",
          "NoBonus", "NoBonus", "DoubleWord", "NoBonus", "NoBonus">>

col4 == <<"DoubleLetter", "NoBonus", "NoBonus", "DoubleWord", "NoBonus",
          "NoBonus", "NoBonus", "DoubleLetter", "NoBonus", "NoBonus",
          "NoBonus", "DoubleWord", "NoBonus", "NoBonus", "DoubleLetter">>

col5 == <<"NoBonus", "NoBonus", "NoBonus", "NoBonus", "DoubleWord",
          "NoBonus", "NoBonus", "NoBonus", "NoBonus", "NoBonus",
          "DoubleWord", "NoBonus", "NoBonus", "NoBonus", "NoBonus">>

col6 == <<"NoBonus", "TripleLetter", "NoBonus", "NoBonus", "NoBonus",
          "TripleLetter", "NoBonus", "NoBonus", "NoBonus", "TripleLetter",
          "NoBonus", "NoBonus", "NoBonus", "TripleLetter", "NoBonus">>

col7 == <<"NoBonus", "NoBonus", "DoubleLetter", "NoBonus", "NoBonus",
          "NoBonus", "DoubleLetter", "NoBonus", "DoubleLetter", "NoBonus",
          "NoBonus", "NoBonus", "DoubleLetter", "NoBonus", "NoBonus">>

col8 == <<"TripleWord", "NoBonus", "NoBonus", "DoubleLetter", "NoBonus",
          "NoBonus", "NoBonus", "DoubleWord", "NoBonus", "NoBonus",
          "NoBonus", "DoubleLetter", "NoBonus", "NoBonus", "TripleWord">>

\* the member squareTypes after initSquareTypes
squareTypes ==
    <<col1, col2, col3, col4, col5, col6, col7, col8, col7, col6, col5, col4,
      col3, col2, col1>>

NoIndex == <<>>

\* squareTypes[row][col]: the element for indices inside both lists; outside,
\* QList::operator[] is outside its contract and the call ends in a failed
\* assertion or returns whatever lies there
squareAt(row, col) ==
    IF /\ row + 1 \in DOMAIN squareTypes
       /\ col + 1 \in DOMAIN squareTypes[row + 1]
    THEN {squareTypes[row + 1][col + 1]}
    ELSE SquareTypes \cup {"fault"}

\* what a call returns and where it has read squareTypes
getSquareType(row, col) ==
    IF (row < 0) \/ (row > NUM_ROWS) \/ (col < 0) \/ (col > NUM_COLUMNS)
    THEN {[ret |-> "Invalid", at |-> NoIndex]}
    ELSE {[ret |-> square, at |-> <<row, col>>] : square \in squareAt(row, col)}

Coordinates == (0 - MaxOutside)..(NUM_ROWS - 1 + MaxOutside)

BoardInit ==
    /\ coordinates = NoIndex
    /\ squareType = "none"
    /\ indexed = NoIndex

\* ------------------------------------------------------------------ the engine
\* the session a newQuiz replaces has progress in every member
SessionInProgress ==
    /\ inSession
    /\ questionIndex > 0
    /\ quizCorrect > 0
    /\ quizIncorrect > 0
    /\ correctUserResponses # {}
    /\ incorrectUserResponses # <<>>

ProgressInit ==
    /\ progress = FreshProgress
    /\ document = NullElement
    /\ saved = FreshProgress
    /\ pop = "construct"
    /\ parg = NullString
    /\ pret = "void"

Init == EngineInit /\ ProgressInit /\ BoardInit

NewQuiz ==
    /\ \E input \in QueryTexts, type \in MatchTypes,
          useAlphagrams \in BOOLEAN, randomOrder \in BOOLEAN :
           newQuiz(input, type, useAlphagrams, randomOrder)
    /\ replaced' = SessionInProgress
    /\ fault' = "none"
    /\ UNCHANGED <<quizProgress, gameBoard>>

NextQuestion ==
    /\ nextQuestion
    /\ replaced' = FALSE
    /\ fault' = "none"
    /\ UNCHANGED <<quizProgress, gameBoard>>

Respond ==
    /\ \E response \in Responses : respond(response)
    /\ replaced' = FALSE
    /\ fault' = "none"
    /\ UNCHANGED <<quizProgress, gameBoard>>

NewQuizFault ==
    /\ \E input \in QueryTexts, type \in MatchTypes,
          useAlphagrams \in BOOLEAN, randomOrder \in BOOLEAN,
          stage \in FaultStages, outcome \in FaultOutcomes :
           /\ newQuizFault(input, type, useAlphagrams, randomOrder, stage,
                           outcome)
           /\ fault' = stage
    /\ replaced' = FALSE
    /\ UNCHANGED <<quizProgress, gameBoard>>

Next == NewQuiz \/ NextQuestion \/ Respond

Spec == Init /\ [][Next]_vars

\* a run is followed up to its first failing newQuiz
NextFailure == fault = "none" /\ (Next \/ NewQuizFault)

SpecFailure == Init /\ [][NextFailure]_vars

\* ------------------------------------------------- QuizProgress operations
\* the engine, constructed and left alone
EngineIdle ==
    /\ quizQuestions = <<>>
    /\ quizType = "Pattern"
    /\ questionIndex = 1
    /\ quizTotal = 1
    /\ quizCorrect = 1
    /\ quizIncorrect = 1
    /\ correctResponses = {}
    /\ correctUserResponses = {}
    /\ incorrectUserResponses = <<>>
    /\ inSession = FALSE
    /\ request = NoRequest
    /\ responded = {}
    /\ op = "construct"
    /\ arg = NullString
    /\ ret = "void"
    /\ replaced = FALSE
    /\ fault = "none"

ProgressWords == {ACT, TCA}
QuestionNumbers == {12}
CorrectNumbers == {3}

Counted == progress.incorrect + progress.missed

SetQuestion ==
    /\ \E q \in QuestionNumbers : progress' = setQuestion(progress, q)
    /\ pop' = "setQuestion"
    /\ parg' = NullString
    /\ pret' = "void"
    /\ UNCHANGED <<document, saved, session, gameBoard>>

SetCorrect ==
    /\ \E c \in CorrectNumbers : progress' = setCorrect(progress, c)
    /\ pop' = "setCorrect"
    /\ parg' = NullString
    /\ pret' = "void"
    /\ UNCHANGED <<document, saved, session, gameBoard>>

AddIncorrect ==
    /\ Counted < MaxCount
    /\ \E word \in ProgressWords :
           /\ progress' = addIncorrect(progress, word)
           /\ parg' = word
    /\ pop' = "addIncorrect"
    /\ pret' = "void"
    /\ UNCHANGED <<document, saved, session, gameBoard>>

AddIncorrectCount ==
    /\ \E word \in ProgressWords, count \in 1..MaxCount :
           /\ Counted + count <= MaxCount
           /\ progress' = addIncorrectCount(progress, word, count)
           /\ parg' = word
    /\ pop' = "addIncorrectCount"
    /\ pret' = "void"
    /\ UNCHANGED <<document, saved, session, gameBoard>>

AddMissed ==
    /\ Counted < MaxCount
    /\ \E word \in ProgressWords :
           /\ progress' = addMissed(progress, word)
           /\ parg' = word
    /\ pop' = "addMissed"
    /\ pret' = "void"
    /\ UNCHANGED <<document, saved, session, gameBoard>>

AddMissedCount ==
    /\ \E word \in ProgressWords, count \in 1..MaxCount :
           /\ Counted + count <= MaxCount
           /\ progress' = addMissedCount(progress, word, count)
           /\ parg' = word
    /\ pop' = "addMissedCount"
    /\ pret' = "void"
    /\ UNCHANGED <<document, saved, session, gameBoard>>

AsDomElement ==
    /\ document' = asDomElement(progress)
    /\ saved' = progress
    /\ pop' = "asDomElement"
    /\ parg' = NullString
    /\ pret' = "element"
    /\ UNCHANGED <<progress, session, gameBoard>>

FromDomElement ==
    /\ ~isNull(document)
    /\ LET result == fromDomElement(progress, document)
       IN  /\ progress' = result.obj
           /\ pret' = IF result.ret THEN "true" ELSE "false"
    /\ pop' = "fromDomElement"
    /\ parg' = NullString
    /\ UNCHANGED <<document, saved, session, gameBoard>>

NextProgress ==
    \/ SetQuestion \/ SetCorrect
    \/ AddIncorrect \/ AddIncorrectCount
    \/ AddMissed \/ AddMissedCount
    \/ AsDomElement \/ FromDomElement

InitProgress == EngineIdle /\ ProgressInit /\ BoardInit

SpecProgress == InitProgress /\ [][NextProgress]_vars

\* ------------------------------------------------- documents handed in
OneText == <<"1">>
TwoText == <<"2">>
NoNumberText == <<"x">>

ResponseNode(attrs) == Element(XML_RESPONSE_ELEMENT, attrs, <<>>)

\* a response with both attributes, one without count, one without word, one
\* whose count is no integer, and a comment
ResponseNodes ==
    {ResponseNode((XML_RESPONSE_WORD_ATTR :> ACT)
                      @@ (XML_RESPONSE_COUNT_ATTR :> OneText)),
     ResponseNode(XML_RESPONSE_WORD_ATTR :> ACT),
     ResponseNode(XML_RESPONSE_COUNT_ATTR :> OneText),
     ResponseNode((XML_RESPONSE_WORD_ATTR :> ACT)
                      @@ (XML_RESPONSE_COUNT_ATTR :> NoNumberText)),
     CommentNode}

ResponseLists(n) == UNION {[1..k -> ResponseNodes] : k \in 0..n}

\* the children of the top element that take up at most n nodes
ContainerNodes(n) ==
    {CommentNode, Element("bogus", NoAttributes, <<>>)}
        \cup {Element(tag, NoAttributes, responses) :
                  tag \in {XML_INCORRECT_RESPONSES_ELEMENT,
                           XML_MISSED_RESPONSES_ELEMENT},
                  responses \in ResponseLists(n - 1)}

RECURSIVE ChildLists(_)
ChildLists(n) ==
    {<<>>} \cup
    IF n = 0 THEN {}
    ELSE UNION {{<<c>> \o rest : rest \in ChildLists(n - 1 - Len(c.children))} :
                    c \in ContainerNodes(n)}

TopAttributes ==
    {q @@ c : q \in {NoAttributes, XML_QUESTION_ATTR :> OneText,
                     XML_QUESTION_ATTR :> NoNumberText},
              c \in {NoAttributes, XML_CORRECT_ATTR :> TwoText,
                     XML_CORRECT_ATTR :> NoNumberText}}

Documents ==
    {Element(XML_TOP_ELEMENT, attrs, children) :
         attrs \in TopAttributes, children \in ChildLists(MaxNodes)}
        \cup {Element("quiz", NoAttributes, <<>>)}

\* the objects a document is read into: a new one and one that has been used
UsedProgress ==
    addMissed(addIncorrect(setCorrect(setQuestion(FreshProgress, 12), 3), TCA),
              TCA)

Targets == {FreshProgress, UsedProgress}

InitDocument ==
    /\ EngineIdle
    /\ progress \in Targets
    /\ document \in Documents
    /\ saved = FreshProgress
    /\ pop = "construct"
    /\ parg = NullString
    /\ pret = "void"
    /\ BoardInit

NextDocument == FromDomElement

SpecDocument == InitDocument /\ [][NextDocument]_vars

\* ------------------------------------------- CrosswordGameBoard operations
GetSquareType ==
    /\ \E row \in Coordinates, col \in Coordinates :
           \E result \in getSquareType(row, col) :
               /\ coordinates' = <<row, col>>
               /\ squareType' = result.ret
               /\ indexed' = result.at
    /\ UNCHANGED <<session, quizProgress>>

InitBoard == EngineIdle /\ ProgressInit /\ BoardInit

NextBoard == GetSquareType

SpecBoard == InitBoard /\ [][NextBoard]_vars

\* ------------------------------------------------------------------ claims
IsPermutation(s, t) ==
    /\ Len(s) = Len(t)
    /\ \A x \in Range(s) \cup Range(t) : Count(x, s) = Count(x, t)

\* C1: in every state of a session userCorrect is a subset of correctAnswers
\* and getMissed() lists exactly correctAnswers minus userCorrect, so the two
\* are disjoint and together make up correctAnswers
C1_Partition ==
    inSession =>
        /\ correctUserResponses \subseteq correctResponses
        /\ Range(getMissed) = correctResponses \ correctUserResponses
        /\ Range(getMissed) \cap correctUserResponses = {}
        /\ Range(getMissed) \cup correctUserResponses = correctResponses

C1_Witness ==
    /\ inSession
    /\ op = "respond"
    /\ correctUserResponses # {}
    /\ getMissed # <<>>

\* C2: a respond(w) with w in correctAnswers that is not the first respond(w)
\* on the current question returns Duplicate and changes no member of the
\* engine
C2_Duplicate ==
    [][(op' = "respond" /\ arg' \in correctResponses /\ arg' \in responded)
        => (ret' = "Duplicate" /\ UNCHANGED engine)]_vars

C2_Witness ==
    /\ inSession
    /\ op = "respond"
    /\ ret = "Duplicate"
    /\ arg \in correctUserResponses
    /\ quizCorrect = 1

\* C3: a respond(r) with r not in correctAnswers returns Incorrect, appends r
\* to userIncorrect and adds one to totalIncorrect, and leaves userCorrect,
\* totalCorrect and totalPossible alone, on every such call
C3_Incorrect ==
    [][(op' = "respond" /\ arg' \notin correctResponses)
        => /\ ret' = "Incorrect"
           /\ incorrectUserResponses' = Append(incorrectUserResponses, arg')
           /\ quizIncorrect' = quizIncorrect + 1
           /\ UNCHANGED <<correctUserResponses, quizCorrect, quizTotal>>]_vars

C3_Witness ==
    /\ inSession
    /\ op = "respond"
    /\ ret = "Incorrect"
    /\ incorrectUserResponses = <<TCA, TCA>>
    /\ quizIncorrect = 2

\* C4: a respond(r) with r in correctAnswers and not yet in userCorrect returns
\* Correct, adds r to userCorrect and one to totalCorrect, and leaves
\* userIncorrect, totalIncorrect and totalPossible alone
C4_Correct ==
    [][(op' = "respond" /\ arg' \in correctResponses
                        /\ arg' \notin correctUserResponses)
        => /\ ret' = "Correct"
           /\ correctUserResponses' = correctUserResponses \cup {arg'}
           /\ quizCorrect' = quizCorrect + 1
           /\ UNCHANGED <<incorrectUserResponses, quizIncorrect, quizTotal>>]_vars

C4_Witness ==
    /\ inSession
    /\ op = "respond"
    /\ ret = "Correct"
    /\ arg \in correctUserResponses
    /\ incorrectUserResponses # <<>>

\* C5: when the current question is not the last one, nextQuestion() adds one
\* to questionIndex and returns true
C5_AdvanceReturnsTrue ==
    [][(op' = "nextQuestion" /\ inSession /\ quizQuestions # <<>>
                             /\ ~onLastQuestion)
        => (questionIndex' = questionIndex + 1 /\ ret' = "true")]_vars

\* C6: when questionIndex is questions.length - 1, nextQuestion() returns false
\* and changes no member of the engine
C6_LastQuestionStays ==
    [][(op' = "nextQuestion" /\ inSession
                             /\ questionIndex = Len(quizQuestions) - 1)
        => (ret' = "false" /\ UNCHANGED engine)]_vars

C6_Witness ==
    /\ inSession
    /\ op = "nextQuestion"
    /\ ret = "false"
    /\ questionIndex = Len(quizQuestions) - 1
    /\ correctUserResponses # {}
    /\ incorrectUserResponses # <<>>

\* C7: in a session with a non-empty question list,
\* 0 <= questionIndex < questions.length
C7_IndexInRange ==
    (inSession /\ quizQuestions # <<>>)
        => (0 <= questionIndex /\ questionIndex < Len(quizQuestions))

C7_Witness ==
    /\ inSession
    /\ Len(quizQuestions) = 3
    /\ questionIndex = 2
    /\ op = "nextQuestion"
    /\ correctUserResponses # {}

\* C8: in every state of a session totalCorrect <= totalPossible
C8_CorrectAtMostPossible == inSession => quizCorrect <= quizTotal

C8_Witness ==
    /\ inSession
    /\ questionIndex > 0
    /\ quizTotal > 0
    /\ quizCorrect = quizTotal
    /\ op = "respond"
    /\ ret = "Duplicate"

\* C9: within a session no respond or nextQuestion call decreases
\* totalCorrect, totalIncorrect or totalPossible
C9_CountersMonotonic ==
    [][(inSession /\ op' \in {"respond", "nextQuestion"})
        => /\ quizCorrect' >= quizCorrect
           /\ quizIncorrect' >= quizIncorrect
           /\ quizTotal' >= quizTotal]_vars

C9_Witness ==
    /\ inSession
    /\ op = "nextQuestion"
    /\ questionIndex = 2
    /\ quizTotal > Cardinality(correctResponses)
    /\ quizCorrect > 0
    /\ quizIncorrect > 0

\* C10: after newQuiz with useAlphagrams = true the match type that resolves the
\* answers is Anagram for a requested Pattern and the requested type for
\* Anagram and Subanagram; for Pattern the question list is the alphagrams of
\* matchPattern(queryText), in that order unless shuffled
C10_ExpectedType ==
    IF request.type = "Pattern" THEN "Anagram" ELSE request.type

C10_EffectiveType ==
    (inSession /\ request.alphagrams) =>
        /\ quizType = C10_ExpectedType
        /\ \A i \in 1..Len(quizQuestions) :
               questionIndex = i - 1 =>
                   correctResponses =
                       Range(Match(C10_ExpectedType, quizQuestions[i]))
        /\ request.type = "Pattern" =>
               /\ IsPermutation(quizQuestions,
                                alphagrams(matchPattern(request.input)))
               /\ ~request.randomOrder =>
                      quizQuestions = alphagrams(matchPattern(request.input))

C10_Witness ==
    /\ inSession
    /\ request.alphagrams
    /\ request.type = "Pattern"
    /\ quizType = "Anagram"
    /\ Len(quizQuestions) = 3
    /\ questionIndex = 1
    /\ correctResponses = {AT, TA}

\* C11: after newQuiz with useAlphagrams = false the question list is
\* [queryText], the effective type is the requested type and correctAnswers is
\* what the query of that type returns for queryText
C11_PlainQuiz ==
    (inSession /\ ~request.alphagrams) =>
        /\ quizQuestions = <<request.input>>
        /\ quizType = request.type
        /\ correctResponses = Range(Match(request.type, request.input))

C11_Witness ==
    /\ inSession
    /\ op = "newQuiz"
    /\ replaced
    /\ ~request.alphagrams
    /\ request.randomOrder
    /\ request.type = "Subanagram"
    /\ quizQuestions = <<ACT>>
    /\ correctResponses = {ACT, AT, CAT, TA}

\* the question list the last request asks for, before the shuffle
RequestedQuestions ==
    IF request.alphagrams
    THEN alphagrams(Match(request.type, request.input))
    ELSE <<request.input>>

\* C12: right after newQuiz, whatever the session before, questionIndex,
\* totalCorrect and totalIncorrect are 0, userCorrect and userIncorrect are
\* empty, the question list holds the questions of the new request only, and
\* totalPossible is the size of correctAnswers of question 0
C12_FullReset ==
    op = "newQuiz" =>
        /\ inSession
        /\ questionIndex = 0
        /\ quizCorrect = 0
        /\ quizIncorrect = 0
        /\ correctUserResponses = {}
        /\ incorrectUserResponses = <<>>
        /\ IsPermutation(quizQuestions, RequestedQuestions)
        /\ correctResponses =
               Range(Match(quizType, IF quizQuestions = <<>> THEN NullString
                                     ELSE quizQuestions[1]))
        /\ quizTotal = Cardinality(correctResponses)

C12_Witness ==
    /\ op = "newQuiz"
    /\ replaced
    /\ request.alphagrams
    /\ Len(quizQuestions) = 2
    /\ quizTotal = 4

\* a session as a newQuiz without any failure leaves it
C18_FullyConstructed ==
    /\ questionIndex = 0
    /\ quizCorrect = 0
    /\ quizIncorrect = 0
    /\ correctUserResponses = {}
    /\ incorrectUserResponses = <<>>
    /\ quizTotal = Cardinality(correctResponses)
    /\ \E input \in QueryTexts, type \in MatchTypes, useAlphagrams \in BOOLEAN :
           /\ quizType = effectiveType(type, useAlphagrams)
           /\ IsPermutation(quizQuestions,
                            selectQuestions(input, type, useAlphagrams))
           /\ correctResponses =
                  Range(Match(quizType, IF quizQuestions = <<>> THEN NullString
                                        ELSE quizQuestions[1]))

\* C18: when a lexicon query fails during newQuiz the failure is surfaced to
\* the caller and the session is either fully constructed or the one that
\* existed before the call
C18_FailureSurfaced ==
    [][(op' = "newQuiz" /\ fault' # "none")
        => /\ ret' = "exception"
           /\ engine' = engine \/ C18_FullyConstructed']_vars

\* C19: in a session with an empty question list getQuestion() gives the null
\* string and nextQuestion never moves questionIndex away from 0, so the index
\* never lies beyond the end of the list
C19_EmptySessionStays ==
    (inSession /\ quizQuestions = <<>>) =>
        /\ getQuestion = {NullString}
        /\ questionIndex = 0

\* C20: in a session with n >= 1 questions onLastQuestion() is true exactly
\* when questionIndex = n - 1; nextQuestion advances by one below that index;
\* at that index the index stays, onLastQuestion() stays true and nextQuestion
\* returns false, until the next newQuiz
C20_LastQuestionBoundary ==
    [][(inSession /\ quizQuestions # <<>> /\ op' # "newQuiz")
        => /\ onLastQuestion <=> questionIndex = Len(quizQuestions) - 1
           /\ op' = "respond" => questionIndex' = questionIndex
           /\ (op' = "nextQuestion" /\ questionIndex < Len(quizQuestions) - 1)
                  => questionIndex' = questionIndex + 1
           /\ questionIndex = Len(quizQuestions) - 1
                  => /\ questionIndex' = questionIndex
                     /\ quizQuestions' = quizQuestions
                     /\ onLastQuestion'
                     /\ op' = "nextQuestion" => ret' = "false"]_vars

C20_Witness ==
    /\ inSession
    /\ Len(quizQuestions) = 3
    /\ questionIndex = 2
    /\ quizTotal = 5
    /\ op = "nextQuestion"
    /\ ret = "false"
    /\ incorrectUserResponses # <<>>

\* C13: in every QuizProgress reached from a fresh object by addIncorrect,
\* addMissed, their counted overloads and successful fromDomElement calls, the
\* incorrect total is the sum of the counts in the incorrect-word map and the
\* missed total is the sum of the counts in the missed-word map
C13_TotalsMatchMaps ==
    /\ progress.incorrect = SumValues(progress.incorrectWords)
    /\ progress.missed = SumValues(progress.missedWords)

\* C14: reading the document written by asDomElement for an object p into any
\* target succeeds and leaves the target equal to p in question, correct,
\* both totals and both maps
C14_RoundTrip ==
    (pop = "fromDomElement" /\ document = asDomElement(saved))
        => (pret = "true" /\ progress = saved)

\* C15: a fromDomElement call that returns false leaves every field of the
\* target as it was before the call
C15_FailureLeavesTarget ==
    [][(pop' = "fromDomElement" /\ pret' = "false") => progress' = progress]_vars

ValidResponse(node) ==
    /\ node.kind = "element"
    /\ hasAttribute(node, XML_RESPONSE_WORD_ATTR)
    /\ hasAttribute(node, XML_RESPONSE_COUNT_ATTR)
    /\ toInt(attribute(node, XML_RESPONSE_COUNT_ATTR)).ok

\* a used target refused for a response without count that follows a response
\* already read
C15_Witness ==
    /\ pop = "fromDomElement"
    /\ pret = "false"
    /\ progress = UsedProgress
    /\ \E i \in DOMAIN document.children :
           LET elem == document.children[i]
           IN  /\ elem.kind = "element"
               /\ Len(elem.children) = 2
               /\ ValidResponse(elem.children[1])
               /\ elem.children[2].kind = "element"
               /\ ~hasAttribute(elem.children[2], XML_RESPONSE_COUNT_ATTR)

\* the response elements listed in the containers of one tag, in document order
RECURSIVE ListedResponses(_, _, _)
ListedResponses(element, tag, i) ==
    IF i > Len(element.children) THEN <<>>
    ELSE LET node == element.children[i]
         IN  (IF node.kind = "element" /\ node.tag = tag
              THEN SelectSeq(node.children, ValidResponse)
              ELSE <<>>)
             \o ListedResponses(element, tag, i + 1)

RECURSIVE ListedMap(_)
ListedMap(responses) ==
    IF responses = <<>> THEN EmptyMap
    ELSE LET last == responses[Len(responses)]
         IN  insert(ListedMap(SubSeq(responses, 1, Len(responses) - 1)),
                    attribute(last, XML_RESPONSE_WORD_ATTR),
                    toInt(attribute(last, XML_RESPONSE_COUNT_ATTR)).value)

RECURSIVE ListedTotal(_)
ListedTotal(responses) ==
    IF responses = <<>> THEN 0
    ELSE toInt(attribute(Head(responses), XML_RESPONSE_COUNT_ATTR)).value
             + ListedTotal(Tail(responses))

\* the object a document describes: its question and correct attributes, 0 for
\* an absent one, the entries it lists and the totals of their counts
Listed(element) ==
    LET incorrectListed ==
            ListedResponses(element, XML_INCORRECT_RESPONSES_ELEMENT, 1)
        missedListed ==
            ListedResponses(element, XML_MISSED_RESPONSES_ELEMENT, 1)
    IN  [question |-> toInt(attribute(element, XML_QUESTION_ATTR)).value,
         correct |-> toInt(attribute(element, XML_CORRECT_ATTR)).value,
         incorrect |-> ListedTotal(incorrectListed),
         missed |-> ListedTotal(missedListed),
         incorrectWords |-> ListedMap(incorrectListed),
         missedWords |-> ListedMap(missedListed)]

\* C16: after a fromDomElement call that returns true the target holds the
\* question and correct values of the document (0 for an absent attribute),
\* the word counts the document lists and their totals, and nothing of its
\* state before the call
C16_Replaced ==
    (pop = "fromDomElement" /\ pret = "true") => progress = Listed(document)

\* a top tag other than progress, a child element of the top element that is
\* no container, a question or correct attribute that is no integer, or a
\* response without word, without count or with a count that is no integer
HasViolation(element) ==
    \/ element.tag # XML_TOP_ELEMENT
    \/ /\ hasAttribute(element, XML_QUESTION_ATTR)
       /\ ~toInt(attribute(element, XML_QUESTION_ATTR)).ok
    \/ /\ hasAttribute(element, XML_CORRECT_ATTR)
       /\ ~toInt(attribute(element, XML_CORRECT_ATTR)).ok
    \/ \E i \in DOMAIN element.children :
           LET elem == element.children[i]
           IN  /\ elem.kind = "element"
               /\ \/ elem.tag \notin {XML_INCORRECT_RESPONSES_ELEMENT,
                                      XML_MISSED_RESPONSES_ELEMENT}
                  \/ \E j \in DOMAIN elem.children :
                         /\ elem.children[j].kind = "element"
                         /\ ~ValidResponse(elem.children[j])

\* C17: fromDomElement returns false for every document with one of the
\* violations and true for every document with none
C17_Validated ==
    pop = "fromDomElement" => (pret = "false" <=> HasViolation(document))

\* the count a word map holds for a word, 0 for a word it does not hold
CountOf(map, word) == IF word \in DOMAIN map THEN map[word] ELSE 0

\* a word map after one more response of the word: its count one higher, the
\* word present, every other entry as before
OneMore(before, after, word) ==
    /\ DOMAIN after = DOMAIN before \cup {word}
    /\ after[word] = CountOf(before, word) + 1
    /\ \A w \in DOMAIN before : w # word => after[w] = before[w]

\* C21: addIncorrect(word) raises the incorrect count of the word by 1
\* (creating it at 1) and the incorrect total by 1 and changes nothing else;
\* addMissed(word) does the same to the missed count and total
C21_AddOne ==
    [][/\ pop' = "addIncorrect" =>
            /\ OneMore(progress.incorrectWords, progress'.incorrectWords, parg')
            /\ progress'.incorrect = progress.incorrect + 1
            /\ progress'.question = progress.question
            /\ progress'.correct = progress.correct
            /\ progress'.missed = progress.missed
            /\ progress'.missedWords = progress.missedWords
       /\ pop' = "addMissed" =>
            /\ OneMore(progress.missedWords, progress'.missedWords, parg')
            /\ progress'.missed = progress.missed + 1
            /\ progress'.question = progress.question
            /\ progress'.correct = progress.correct
            /\ progress'.incorrect = progress.incorrect
            /\ progress'.incorrectWords = progress.incorrectWords]_vars

\* addIncorrect of one word twice on an object without counted responses
C21_Witness ==
    /\ pop = "addIncorrect"
    /\ parg = ACT
    /\ progress.incorrectWords = (ACT :> 2)
    /\ progress.incorrect = 2
    /\ progress.missedWords = EmptyMap

\* a step that changes the current question: newQuiz, or a nextQuestion that
\* moves the index
QuestionChange ==
    \/ op' = "newQuiz"
    \/ op' = "nextQuestion" /\ questionIndex' # questionIndex

\* the totals prepareQuestion starts from: those of the session in a
\* nextQuestion, the zeros newQuiz has just assigned in a newQuiz
TotalAtChange(total) == IF op' = "newQuiz" THEN 0 ELSE total

\* C22: every change of the current question empties userCorrect and
\* userIncorrect, makes correctAnswers the result of the query of the effective
\* type for the new question text, adds the size of that set to totalPossible
\* and leaves totalCorrect and totalIncorrect as they are
C22_QuestionPrepared ==
    [][QuestionChange =>
          /\ correctUserResponses' = {}
          /\ incorrectUserResponses' = <<>>
          /\ \E question \in getQuestionAt(quizQuestions', questionIndex') :
                 correctResponses' = Range(Match(quizType', question))
          /\ quizTotal' = TotalAtChange(quizTotal) + Cardinality(correctResponses')
          /\ quizCorrect' = TotalAtChange(quizCorrect)
          /\ quizIncorrect' = TotalAtChange(quizIncorrect)]_vars

\* the second question of a session reached after a correct and an incorrect
\* response to the first
C22_Witness ==
    /\ inSession
    /\ op = "nextQuestion"
    /\ questionIndex = 1
    /\ quizCorrect = 1
    /\ quizIncorrect = 1
    /\ correctUserResponses = {}
    /\ incorrectUserResponses = <<>>
    /\ correctResponses # {}
    /\ quizTotal > Cardinality(correctResponses)

\* C23: with randomOrder = true, whatever the random draws, the question list
\* of the session is a permutation of the list selected before the shuffle:
\* the same length and every question as often as before
C23_ShufflePermutes ==
    (inSession /\ request.randomOrder) =>
        IsPermutation(quizQuestions, RequestedQuestions)

\* a shuffle that has moved the questions
C23_Witness ==
    /\ inSession
    /\ op = "newQuiz"
    /\ request.randomOrder
    /\ Len(quizQuestions) >= 2
    /\ quizQuestions # RequestedQuestions

\* C24: a step that is no newQuiz leaves the question list and the effective
\* type alone; respond leaves questionIndex, correctAnswers and totalPossible
\* alone; the index moves only in nextQuestion (or a newQuiz) and
\* correctAnswers changes only with a change of the question
C24_SessionFrame ==
    [][/\ op' # "newQuiz" =>
            /\ quizQuestions' = quizQuestions
            /\ quizType' = quizType
       /\ op' = "respond" =>
            /\ questionIndex' = questionIndex
            /\ correctResponses' = correctResponses
            /\ quizTotal' = quizTotal
       /\ questionIndex' # questionIndex => op' \in {"nextQuestion", "newQuiz"}
       /\ correctResponses' # correctResponses =>
            \/ op' = "newQuiz"
            \/ op' = "nextQuestion" /\ questionIndex' = questionIndex + 1]_vars

\* an incorrect response to the second question of a session
C24_Witness ==
    /\ inSession
    /\ op = "respond"
    /\ ret = "Incorrect"
    /\ questionIndex = 1
    /\ Len(quizQuestions) >= 2
    /\ quizTotal > Cardinality(correctResponses)
    /\ correctResponses # {}

OnBoard(index) ==
    /\ index[1] \in 0..(NUM_ROWS - 1)
    /\ index[2] \in 0..(NUM_COLUMNS - 1)

\* C25: getSquareType returns Invalid for every row or column outside the
\* board, below 0 or above 14, and reads squareTypes at indices 0..14 only
C25_InsideBoard ==
    coordinates # NoIndex =>
        /\ ~OnBoard(coordinates) => squareType = "Invalid"
        /\ indexed # NoIndex => OnBoard(indexed)

====
